---- MODULE Spec2Model ----
(***************************************************************************)
(* Offline-first record synchronisation of battlefield-medical-ai.        *)
(*                                                                         *)
(* Two engines are modelled, each as the code has it:                      *)
(*   - the backend SyncManager singleton (services/.../SyncManager, kept   *)
(*     in src/unnamed/part_005): an in-memory syncQueue, a setInterval     *)
(*     timer and processSyncBatch passes that suspend at every remote call *)
(*   - the browser client: the IndexedDB stores of offlineDB.js            *)
(*     (medical_records, sync_queue) and the useOfflineSync hook whose     *)
(*     attemptSync passes suspend at every await.                          *)
(* SpecSM runs the SyncManager, SpecClient runs the client, SpecSMCrash    *)
(* the SyncManager in a process that restarts, SpecSMTimer the SyncManager *)
(* driven by queueForSync and its timer alone, SpecSMClear the SyncManager *)
(* with a note of its clearQueue calls, SpecBacklog the client's passes,   *)
(* fairly scheduled, over a sync_queue store that holds a backlog,         *)
(* SpecPriority the priority classifier calculateSyncPriority on its own.  *)
(***************************************************************************)
EXTENDS Integers, Sequences, FiniteSets, TLC

\* ---------------------------------------------------------------- bounds
MaxItems == 2        \* queueForSync calls made on the SyncManager
MaxRecs == 2         \* distinct record objects handed to queueForSync
MaxPasses == 2       \* processSyncBatch invocations suspended at once
MaxSaved == 2        \* records saved on the client (saveMedicalRecord calls)
MaxCPasses == 2      \* attemptSync invocations suspended at once
NumHooks == 1        \* mounted components that call useOfflineSync()
MaxAuthChanges == 1  \* logins / logouts (changes of AuthContext soldier)
MaxSubmits == 2      \* remote submissions made by the client (cuts the endless retry)
MaxBacklog == 6      \* entries of the backlog the client starts with in SpecBacklog
MaxCalls == 2        \* calculateSyncPriority calls kept in the classifier's log
MaxActions == 2      \* length of a record's emergencyActions array

\* ------------------------------------------------------ program constants
maxRetries == 3      \* SyncManager.maxRetries
syncBatchSize == 10  \* SyncManager.syncBatchSize
clientBatchSize == 5 \* attemptSync: getPendingSyncItems(5)
defaultLimit == 10   \* getPendingSyncItems(limit = 10)

Priorities == {1, 2, 3}
Recs == 1..MaxRecs

VARIABLES
    \* ---- SyncManager (src/unnamed/part_005)
    syncQueue,      \* this.syncQueue: sequence of sync items
    smIsSyncing,    \* this.isSyncing
    syncInterval,   \* this.syncInterval: TRUE when a setInterval timer is armed
    smPass,         \* the processSyncBatch invocations in progress: batch, idx
    smNextId,       \* number of sync ids generated so far (generateSyncId)
    smClock,        \* new Date() as seen by the SyncManager
    smFailed,       \* sync item ids that reached handleSyncFailure
    smStopped,      \* stopSyncProcess was called from outside with a batch in flight
                    \* and startSyncProcess has not been called from outside since
    smTimers,       \* number of setInterval timers that are active
    smClearedUpTo,  \* number of sync ids generated when clearQueue was last called
                    \* (a history variable, recorded in SpecSMClear only)
    \* ---- client (offlineDB.js, useOfflineSync.js)
    medicalRecords, \* object store medical_records, in key order
    syncStore,      \* object store sync_queue, in key order
    cNextKey,       \* autoIncrement key generator of sync_queue
    cClock,         \* the timestamp of the newest sync_queue entry
    isSyncing,      \* per hook instance: the isSyncing state
    qrIsSyncing,    \* per hook instance: isSyncing as captured by queueRecord's closure
    syncStatus,     \* the syncStatus state ('online' / 'offline')
    queuedRecords,  \* per hook instance: the queuedRecords state (priorities)
    lastSync,       \* per hook instance: lastSync is set
    soldier,        \* AuthContext soldier ("none" when not authenticated)
    cPass,          \* the attemptSync invocations: pc, hook, owner, batch, idx
    cRemote,        \* per record id: deliveries the remote accepted
    cSubmits,       \* remote submissions made so far
    authChanges,    \* logins and logouts so far
    qrResult,       \* what the last queueRecord call resolved to ("none" before the first)
    \* ---- calculateSyncPriority on its own
    priorityLog     \* the calls made: triageLevel, emergencyActions, priority returned

smVars == <<syncQueue, smIsSyncing, syncInterval, smPass, smNextId, smClock, smFailed,
           smStopped, smTimers, smClearedUpTo>>
cVars == <<medicalRecords, syncStore, cNextKey, cClock, isSyncing, qrIsSyncing, syncStatus,
           queuedRecords, lastSync, soldier, cPass, cRemote, cSubmits, authChanges,
           qrResult>>
pVars == <<priorityLog>>
vars == <<smVars, cVars, pVars>>

\* ------------------------------------------------------------- helpers
Min(a, b) == IF a < b THEN a ELSE b

Last(s) == s[Len(s)]

\* The comparator of the sorts: priority, then (byTs) timestamp.
Cmp(a, b, byTs) ==
    IF a.priority # b.priority THEN a.priority - b.priority
    ELSE IF byTs THEN a.ts - b.ts ELSE 0

\* Array.prototype.sort with the comparator above, on the array arr. The sort is
\* stable: an element comes before another when it compares smaller, or compares
\* equal and stood before it; the result has each element at the place its rank
\* gives.
SortItems(arr, byTs) ==
    CHOOSE sorted \in
        { LET Before(i, j) ==
                  \/ Cmp(s[i], s[j], byTs) < 0
                  \/ Cmp(s[i], s[j], byTs) = 0 /\ i < j
              Rank(i) == 1 + Cardinality({j \in 1..Len(s) : Before(j, i)})
              ranked == [k \in 1..Len(s) |-> s[CHOOSE i \in 1..Len(s) : Rank(i) = k]]
          IN SubSeq(ranked, 1, Len(s))
          : s \in {arr} } : TRUE

IsSorted(s, byTs) ==
    \A i \in 1..Len(s) : \A j \in 1..Len(s) : i < j => Cmp(s[i], s[j], byTs) <= 0

SeqToSet(s) == {s[i] : i \in 1..Len(s)}

\* ======================================================================
\* SyncManager
\* ======================================================================

\* The sync items a processSyncBatch invocation ps still holds: the one at the
\* remote and those behind it in the batch.
Remaining(ps) == {ps.batch[i] : i \in ps.idx..Len(ps.batch)}

\* The item of invocation ps that is at the remote.
Current(ps) == ps.batch[ps.idx]

SMInit ==
    /\ syncQueue = <<>>
    /\ smIsSyncing = FALSE
    /\ syncInterval = FALSE
    /\ smPass = {}
    /\ smNextId = 0
    /\ smClock = 0
    /\ smFailed = {}
    /\ smStopped = FALSE
    /\ smTimers = 0
    /\ smClearedUpTo = 0

\* startSyncProcess: the values of (isSyncing, syncInterval) it leaves.
StartedFlags(flags) == IF flags[1] THEN flags ELSE <<TRUE, TRUE>>

\* stopSyncProcess: clearInterval, isSyncing = false.
StoppedFlags == <<FALSE, FALSE>>

\* startSyncProcess without its guard: one more timer.
UnguardedTimers(flags, timers) == timers + 1

\* startSyncProcess: the number of active timers it leaves; setInterval is
\* reached only when isSyncing is false.
StartedTimers(flags, timers) == IF flags[1] THEN timers ELSE timers + 1

\* stopSyncProcess: clearInterval(this.syncInterval) when a handle is held.
StoppedTimers(flags, timers) == IF flags[2] THEN timers - 1 ELSE timers

\* Math.min(item.priority + 1, 1)
RetryPriorityUnclamped(priority) == priority + 1

RetryPriority(priority) == Min(priority + 1, 1)

\* queueForSync(record, priority)
\* The clock has advanced since the previous call. (Two calls within one
\* millisecond get equal timestamps; the stable sort leaves those in insertion
\* order, which is the order increasing timestamps give.)
QueueForSync(r, priority) ==
    /\ smNextId < MaxItems
    /\ r <= smNextId + 1    \* record objects are interchangeable: the k-th call
                            \* brings one of the first k
    /\ LET now == smClock + 1
           syncItem == [id |-> smNextId + 1, rec |-> r, priority |-> priority,
                        attempts |-> 0, ts |-> now, status |-> "queued"]
           flags == IF ~smIsSyncing THEN StartedFlags(<<smIsSyncing, syncInterval>>)
                    ELSE <<smIsSyncing, syncInterval>>
       IN /\ syncQueue' = SortItems(Append(syncQueue, syncItem), TRUE)
          /\ smNextId' = smNextId + 1
          /\ smClock' = now
          /\ smIsSyncing' = flags[1]
          /\ syncInterval' = flags[2]
          /\ smTimers' = IF ~smIsSyncing
                         THEN StartedTimers(<<smIsSyncing, syncInterval>>, smTimers)
                         ELSE smTimers
    /\ UNCHANGED <<smPass, smFailed, smStopped, smClearedUpTo, cVars, pVars>>

\* processSyncBatch up to its first suspension, on queue q: either the queue is
\* empty and the process is stopped, or the batch is spliced off and the first
\* syncSingleItem call is under way.
BeginPass(q) ==
    IF q = <<>>
    THEN /\ smIsSyncing' = StoppedFlags[1]
         /\ syncInterval' = StoppedFlags[2]
         /\ smTimers' = StoppedTimers(<<smIsSyncing, syncInterval>>, smTimers)
         /\ syncQueue' = q
         /\ UNCHANGED smPass
    ELSE LET n == Min(syncBatchSize, Len(q))
         IN /\ Cardinality(smPass) < MaxPasses
            /\ syncQueue' = SubSeq(q, n + 1, Len(q))
            /\ smPass' = smPass \cup {[batch |-> SubSeq(q, 1, n), idx |-> 1]}
            /\ UNCHANGED <<smIsSyncing, syncInterval, smTimers>>

\* The setInterval callback: await this.processSyncBatch()
TimerTick ==
    /\ smTimers > 0
    /\ BeginPass(syncQueue)
    /\ UNCHANGED <<smNextId, smClock, smFailed, smStopped, smClearedUpTo, cVars, pVars>>

\* forceSync: await this.processSyncBatch()
ForceSync ==
    /\ BeginPass(syncQueue)
    /\ UNCHANGED <<smNextId, smClock, smFailed, smStopped, smClearedUpTo, cVars, pVars>>

\* Queue q sorted by priority, every item with the priority it has.
SortedByPriority(q) == SortItems(q, FALSE)

\* Queue q as activateEmergencySync leaves it before the pass: every item at
\* priority 1, sorted by priority.
Escalated(q) ==
    SortItems([i \in 1..Len(q) |-> [q[i] EXCEPT !.priority = 1]], FALSE)

\* activateEmergencySync: every queued item to priority 1, sort by priority,
\* processSyncBatch() (not awaited).
ActivateEmergencySync ==
    /\ BeginPass(Escalated(syncQueue))
    /\ UNCHANGED <<smNextId, smClock, smFailed, smStopped, smClearedUpTo, cVars, pVars>>

\* startSyncProcess called from outside
StartSyncProcess ==
    /\ smIsSyncing' = StartedFlags(<<smIsSyncing, syncInterval>>)[1]
    /\ syncInterval' = StartedFlags(<<smIsSyncing, syncInterval>>)[2]
    /\ smTimers' = StartedTimers(<<smIsSyncing, syncInterval>>, smTimers)
    /\ smStopped' = FALSE
    /\ UNCHANGED <<syncQueue, smPass, smNextId, smClock, smFailed, smClearedUpTo, cVars, pVars>>

\* stopSyncProcess called from outside
StopSyncProcess ==
    /\ smIsSyncing' = StoppedFlags[1]
    /\ syncInterval' = StoppedFlags[2]
    /\ smTimers' = StoppedTimers(<<smIsSyncing, syncInterval>>, smTimers)
    /\ smStopped' = (smStopped \/ smPass # {})
    /\ UNCHANGED <<syncQueue, smPass, smNextId, smClock, smFailed, smClearedUpTo, cVars, pVars>>

\* clearQueue. The history variable smClearedUpTo takes note of the call when
\* noted is TRUE; the call itself is the same either way.
ClearQueue(noted) ==
    /\ syncQueue' = <<>>
    /\ smClearedUpTo' = IF noted THEN smNextId ELSE smClearedUpTo
    /\ UNCHANGED <<smIsSyncing, syncInterval, smPass, smNextId, smClock, smFailed, smStopped,
                   smTimers, cVars, pVars>>

\* The catch branch of processSyncBatch for a failed item: the item as requeued,
\* or <<>> when it goes to handleSyncFailure.
Requeued(item) ==
    IF item.attempts < maxRetries
    THEN <<[item EXCEPT !.attempts = @ + 1, !.status = "retrying",
                        !.priority = RetryPriority(@)]>>
    ELSE <<>>

\* An invocation that ends at its current item, whatever is behind it.
AbortedPass(ps) == smPass \ {ps}

\* The invocations after the loop of ps moved past its current item: the next
\* syncSingleItem call is under way, or the invocation is over.
Advanced(ps) ==
    IF ps.idx < Len(ps.batch)
    THEN (smPass \ {ps}) \cup {[ps EXCEPT !.idx = @ + 1]}
    ELSE smPass \ {ps}

\* syncSingleItem of the current item of ps returns: the remote stored the record.
SyncSucceeds(ps) ==
    /\ ps \in smPass
    /\ smPass' = Advanced(ps)
    /\ UNCHANGED <<syncQueue, smIsSyncing, syncInterval, smNextId, smClock, smFailed,
                   smStopped, smTimers, smClearedUpTo, cVars, pVars>>

\* What syncSingleItem throws: the database cannot be reached (findById,
\* findByIdAndUpdate or save rejects), or save rejects the document as invalid.
Errors == {"unreachable", "validation"}

\* syncSingleItem of the current item of ps throws error. The catch branch logs
\* the error and decides on item.attempts alone.
SyncFails(ps, error) ==
    /\ ps \in smPass
    /\ syncQueue' = syncQueue \o Requeued(Current(ps))
    /\ smFailed' = IF Requeued(Current(ps)) = <<>>
                   THEN smFailed \cup {Current(ps).id} ELSE smFailed
    /\ smPass' = Advanced(ps)
    /\ UNCHANGED <<smIsSyncing, syncInterval, smNextId, smClock, smStopped, smTimers,
                   smClearedUpTo, cVars, pVars>>

NextSM ==
    \/ \E r \in Recs, priority \in Priorities : QueueForSync(r, priority)
    \/ TimerTick
    \/ ForceSync
    \/ ActivateEmergencySync
    \/ StartSyncProcess
    \/ StopSyncProcess
    \/ ClearQueue(FALSE)
    \/ \E ps \in smPass : SyncSucceeds(ps)
    \/ \E ps \in smPass, error \in Errors : SyncFails(ps, error)

\* The same calls, clearQueue calls being noted in smClearedUpTo.
NextSMClear ==
    \/ \E r \in Recs, priority \in Priorities : QueueForSync(r, priority)
    \/ TimerTick
    \/ ForceSync
    \/ ActivateEmergencySync
    \/ StartSyncProcess
    \/ StopSyncProcess
    \/ ClearQueue(TRUE)
    \/ \E ps \in smPass : SyncSucceeds(ps)
    \/ \E ps \in smPass, error \in Errors : SyncFails(ps, error)

\* The SyncManager driven by queueForSync calls and its timer only: nobody calls
\* stopSyncProcess, startSyncProcess, clearQueue, forceSync or
\* activateEmergencySync.
NextSMTimer ==
    \/ \E r \in Recs, priority \in Priorities : QueueForSync(r, priority)
    \/ TimerTick
    \/ \E ps \in smPass : SyncSucceeds(ps)
    \/ \E ps \in smPass, error \in Errors : SyncFails(ps, error)

\* The process restarts (after a crash or a redeploy): the module is loaded again
\* and `new SyncManager()` builds the singleton anew. Queue, timer and the
\* invocations in progress lived in the memory of the old process.
Restart ==
    /\ syncQueue' = <<>>
    /\ smIsSyncing' = FALSE
    /\ syncInterval' = FALSE
    /\ smPass' = {}
    /\ smStopped' = FALSE
    /\ smTimers' = 0
    /\ UNCHANGED <<smNextId, smClock, smFailed, smClearedUpTo, cVars, pVars>>

NextSMCrash ==
    \/ NextSM
    \/ Restart

\* ======================================================================
\* Client: offlineDB.js (BattlefieldMedicalDB) and useOfflineSync.js
\* ======================================================================

Hooks == 1..NumHooks

CPassIds == 1..MaxCPasses

Triage == {"IMMEDIATE", "DELAYED", "MINOR", "EXPECTANT", "missing"}

\* The indexes init() creates on the sync_queue store.
SyncQueueIndexes == {"priority", "timestamp"}

\* The index markAsSynced opens on the sync_queue store.
MarkIndex == "recordId"

IdleCPass == [pc |-> "idle", hook |-> 0, owner |-> "none", batch |-> <<>>, idx |-> 0]

FreeCPasses == {p \in CPassIds : cPass[p].pc = "idle"}

CInit ==
    /\ medicalRecords = <<>>
    /\ syncStore = <<>>
    /\ cNextKey = 1
    /\ cClock = 0
    /\ isSyncing = [h \in Hooks |-> FALSE]
    /\ qrIsSyncing = [h \in Hooks |-> FALSE]
    /\ syncStatus = "online"
    /\ queuedRecords = [h \in Hooks |-> <<>>]
    /\ lastSync = [h \in Hooks |-> FALSE]
    /\ soldier = "none"
    /\ cPass = [p \in CPassIds |-> IdleCPass]
    /\ cRemote = [r \in 1..MaxSaved |-> 0]
    /\ cSubmits = 0
    /\ authChanges = 0
    /\ qrResult = "none"

\* A classifier that reads the triage level only.
TriageOnlyPriority(triageLevel, hasEmergencyActions) ==
    IF triageLevel = "IMMEDIATE" THEN 1
    ELSE IF triageLevel = "DELAYED" THEN 2
    ELSE 3

\* calculateSyncPriority(record)
calculateSyncPriority(triageLevel, hasEmergencyActions) ==
    IF triageLevel = "IMMEDIATE" THEN 1
    ELSE IF hasEmergencyActions THEN 1
    ELSE IF triageLevel = "DELAYED" THEN 2
    ELSE 3

\* addToSyncQueue(type, recordId, priority): the store after db.add.
addToSyncQueue(store, recordId, priority, now) ==
    Append(store, [id |-> cNextKey, recordId |-> recordId, priority |-> priority,
                   ts |-> now])

\* getPendingSyncItems(limit): index('priority').getAll() (index order: priority,
\* then primary key), the sort by priority and timestamp, slice(0, limit).
getPendingSyncItems(limit) ==
    LET items == SortItems(SortItems(syncStore, FALSE), TRUE)
    IN SubSeq(items, 1, Min(limit, Len(items)))

\* markAsSynced, the record part: when the record exists, synced = true and
\* updatedAt = new Date() (counted here in writes since the record was saved),
\* then db.put.
MarkedRecords(recordId) ==
    [i \in 1..Len(medicalRecords) |->
        IF medicalRecords[i].id = recordId
        THEN [medicalRecords[i] EXCEPT !.synced = TRUE, !.updatedAt = @ + 1]
        ELSE medicalRecords[i]]

\* The entries of store s whose keys are in keep, in key order.
KeepEntries(s, keep) ==
    LET F[i \in 0..Len(s)] ==
            IF i = 0 THEN <<>>
            ELSE IF s[i].id \in keep THEN Append(F[i - 1], s[i]) ELSE F[i - 1]
    IN F[Len(s)]

\* markAsSynced, the queue part: store.index('recordId') throws for an index the
\* store does not have, the catch logs it and the store is left as it was;
\* otherwise every entry of the record is deleted.
UnqueuedStore(recordId) ==
    IF MarkIndex \in SyncQueueIndexes
    THEN KeepEntries(syncStore,
                    {syncStore[i].id : i \in {j \in 1..Len(syncStore) :
                                                 syncStore[j].recordId # recordId}})
    ELSE syncStore

\* attemptSync reaches setIsSyncing(true): the guard as the calling closure sees it.
GuardPasses(closureIsSyncing, closureStatus) ==
    ~closureIsSyncing /\ closureStatus = "online"

\* The passes after hooks hs each start one (lowest free slots first).
RECURSIVE StartedPasses(_, _, _)
StartedPasses(passes, hs, owner) ==
    IF hs = {} THEN passes
    ELSE LET h == CHOOSE x \in hs : \A y \in hs : x <= y
             free == {p \in CPassIds : passes[p].pc = "idle"}
             p == CHOOSE x \in free : \A y \in free : x <= y
         IN StartedPasses([passes EXCEPT ![p] =
                              [pc |-> "fetch", hook |-> h, owner |-> owner,
                               batch |-> <<>>, idx |-> 0]],
                          hs \ {h}, owner)

\* forceSync: await attemptSync(), the closure of the current render.
CForceSync(h) ==
    /\ GuardPasses(isSyncing[h], syncStatus)
    /\ FreeCPasses # {}
    /\ isSyncing' = [isSyncing EXCEPT ![h] = TRUE]
    /\ cPass' = StartedPasses(cPass, {h}, soldier)
    /\ UNCHANGED <<medicalRecords, syncStore, cNextKey, cClock, qrIsSyncing, syncStatus,
                   queuedRecords, lastSync, soldier, cRemote, cSubmits, authChanges, qrResult, smVars, pVars>>

\* The periodic effect: every 30 s, attemptSync() when queuedRecords is not empty
\* and isSyncing is false.
PeriodicSync(h) ==
    /\ syncStatus = "online"
    /\ Len(queuedRecords[h]) > 0 /\ ~isSyncing[h]
    /\ GuardPasses(isSyncing[h], syncStatus)
    /\ FreeCPasses # {}
    /\ isSyncing' = [isSyncing EXCEPT ![h] = TRUE]
    /\ cPass' = StartedPasses(cPass, {h}, soldier)
    /\ UNCHANGED <<medicalRecords, syncStore, cNextKey, cClock, qrIsSyncing, syncStatus,
                   queuedRecords, lastSync, soldier, cRemote, cSubmits, authChanges, qrResult, smVars, pVars>>

\* The auto-sync effect: 2 s after its dependencies change, attemptSync().
AutoSync(h) ==
    /\ syncStatus = "online"
    /\ Len(queuedRecords[h]) > 0
    /\ GuardPasses(isSyncing[h], syncStatus)
    /\ FreeCPasses # {}
    /\ isSyncing' = [isSyncing EXCEPT ![h] = TRUE]
    /\ cPass' = StartedPasses(cPass, {h}, soldier)
    /\ UNCHANGED <<medicalRecords, syncStore, cNextKey, cClock, qrIsSyncing, syncStatus,
                   queuedRecords, lastSync, soldier, cRemote, cSubmits, authChanges, qrResult, smVars, pVars>>

\* handleOnline, in every mounted hook: setSyncStatus('online'), attemptSync().
\* The effect has no dependencies, so attemptSync is the closure of the first
\* render: isSyncing false, syncStatus 'online', soldier null.
HandleOnline ==
    /\ syncStatus = "offline"
    /\ Cardinality(FreeCPasses) >= NumHooks
    /\ GuardPasses(FALSE, "online")
    /\ syncStatus' = "online"
    /\ isSyncing' = [h \in Hooks |-> TRUE]
    /\ qrIsSyncing' = [h \in Hooks |-> TRUE]
    /\ cPass' = StartedPasses(cPass, Hooks, "none")
    /\ UNCHANGED <<medicalRecords, syncStore, cNextKey, cClock, queuedRecords, lastSync,
                   soldier, cRemote, cSubmits, authChanges, qrResult, smVars, pVars>>

\* handleOffline: setSyncStatus('offline').
HandleOffline ==
    /\ syncStatus = "online"
    /\ syncStatus' = "offline"
    /\ qrIsSyncing' = isSyncing
    /\ UNCHANGED <<medicalRecords, syncStore, cNextKey, cClock, isSyncing, queuedRecords,
                   lastSync, soldier, cPass, cRemote, cSubmits, authChanges, qrResult, smVars, pVars>>

\* AuthContext: login / logout change soldier; queueRecord is rebuilt.
SetSoldier(s) ==
    /\ soldier # s
    /\ authChanges < MaxAuthChanges
    /\ authChanges' = authChanges + 1
    /\ soldier' = s
    /\ qrIsSyncing' = isSyncing
    /\ UNCHANGED <<medicalRecords, syncStore, cNextKey, cClock, isSyncing, syncStatus,
                   queuedRecords, lastSync, cPass, cRemote, cSubmits, qrResult, smVars, pVars>>

\* saveMedicalRecord as its caller sees it: the id is returned when db.add of the
\* record went through; otherwise the catch logs the error and throws it again.
saveMedicalRecord(recordAdded) == IF recordAdded THEN "returned" ELSE "threw"

\* A caller without a catch: the exception goes on to its own caller.
Uncaught(saved) == IF saved = "threw" THEN "threw" ELSE "success"

\* queueRecord as its caller sees it: { success: true, recordId }, or from the
\* catch { success: false, error }.
queueRecordResult(saved) == IF saved = "threw" THEN "failure" ELSE "success"

\* queueRecord(record) when saveMedicalRecord throws (init, encryptRecord or db.add
\* of the record failed): nothing is stored, the catch of queueRecord returns.
QueueRecordSaveFails(h) ==
    /\ qrResult' = queueRecordResult(saveMedicalRecord(FALSE))
    /\ UNCHANGED <<medicalRecords, syncStore, cNextKey, cClock, isSyncing, qrIsSyncing,
                   syncStatus, queuedRecords, lastSync, soldier, cPass, cRemote, cSubmits,
                   authChanges, smVars, pVars>>

\* queueRecord(record) with saveMedicalRecord: the record is added, then
\* addToSyncQueue adds the entry (queueOk) or fails and logs (~queueOk); the
\* local list grows; attemptSync() of queueRecord's closure when online.
QueueRecord(h, triageLevel, hasEmergencyActions, queueOk, dt) ==
    /\ Len(medicalRecords) < MaxSaved
    /\ (syncStore = <<>> \/ ~queueOk) => dt = 0   \* only the distance between two
                                                 \* entries' timestamps matters
    /\ LET priority == calculateSyncPriority(triageLevel, hasEmergencyActions)
           id == Len(medicalRecords) + 1
           now == cClock + dt
           starts == syncStatus = "online" /\ GuardPasses(qrIsSyncing[h], syncStatus)
       IN /\ medicalRecords' = Append(medicalRecords,
                [id |-> id, owner |-> soldier, synced |-> FALSE,
                 syncPriority |-> priority, updatedAt |-> 0])
          /\ syncStore' = IF queueOk THEN addToSyncQueue(syncStore, id, priority, now)
                          ELSE syncStore
          /\ cNextKey' = IF queueOk THEN cNextKey + 1 ELSE cNextKey
          /\ cClock' = IF queueOk THEN now ELSE cClock
          /\ queuedRecords' = [queuedRecords EXCEPT ![h] = Append(@, priority)]
          /\ starts => FreeCPasses # {}
          /\ isSyncing' = IF starts THEN [isSyncing EXCEPT ![h] = TRUE] ELSE isSyncing
          /\ cPass' = IF starts THEN StartedPasses(cPass, {h}, soldier) ELSE cPass
    /\ qrResult' = queueRecordResult(saveMedicalRecord(TRUE))
    /\ UNCHANGED <<qrIsSyncing, syncStatus, lastSync, soldier, cRemote, cSubmits, authChanges,
                   smVars, pVars>>

\* The priorities of a list of queue entries (what getSyncStats reads of them).
PrioritiesOf(items) == [i \in 1..Len(items) |-> items[i].priority]

\* A pass that leaves the flag as it found it.
Held(flags, h) == flags

\* The finally block of attemptSync: setIsSyncing(false).
Released(flags, h) == [flags EXCEPT ![h] = FALSE]

\* attemptSync past await getPendingSyncItems(5): nothing pending (lastSync is
\* set, finally clears isSyncing), or the batch to work through.
CFetch(p) ==
    /\ cPass[p].pc = "fetch"
    /\ LET pendingItems == getPendingSyncItems(clientBatchSize)
           h == cPass[p].hook
       IN IF Len(pendingItems) = 0
          THEN /\ lastSync' = [lastSync EXCEPT ![h] = TRUE]
               /\ isSyncing' = Released(isSyncing, h)
               /\ cPass' = [cPass EXCEPT ![p] = IdleCPass]
          ELSE /\ cPass' = [cPass EXCEPT ![p].pc = "lookup", ![p].batch = pendingItems,
                                         ![p].idx = 1]
               /\ UNCHANGED <<lastSync, isSyncing>>
    /\ UNCHANGED <<medicalRecords, syncStore, cNextKey, cClock, qrIsSyncing, syncStatus,
                   queuedRecords, soldier, cRemote, cSubmits, authChanges, qrResult, smVars, pVars>>

\* getMedicalRecords(owner).find(r => r.id === recordId): whether it finds one.
RecordFound(owner, recordId) ==
    \E i \in 1..Len(medicalRecords) :
        medicalRecords[i].owner = owner /\ medicalRecords[i].id = recordId

\* The for loop of attemptSync moves past the current item of pass p.
AdvancedCPass(p) ==
    IF cPass[p].idx < Len(cPass[p].batch)
    THEN [cPass EXCEPT ![p].idx = @ + 1, ![p].pc = "lookup"]
    ELSE [cPass EXCEPT ![p].pc = "finish"]

\* The record of the current item is not found: 'skipping', continue.
CSkip(p) ==
    /\ cPass[p].pc = "lookup"
    /\ ~RecordFound(cPass[p].owner, cPass[p].batch[cPass[p].idx].recordId)
    /\ cPass' = AdvancedCPass(p)
    /\ UNCHANGED <<medicalRecords, syncStore, cNextKey, cClock, isSyncing, qrIsSyncing,
                   syncStatus, queuedRecords, lastSync, soldier, cRemote, cSubmits, authChanges, qrResult, smVars, pVars>>

\* The record is found: simulateAPISync(record) is called and awaited.
CSubmit(p) ==
    /\ cPass[p].pc = "lookup"
    /\ RecordFound(cPass[p].owner, cPass[p].batch[cPass[p].idx].recordId)
    /\ cSubmits < MaxSubmits
    /\ cSubmits' = cSubmits + 1
    /\ cPass' = [cPass EXCEPT ![p].pc = "inflight"]
    /\ UNCHANGED <<medicalRecords, syncStore, cNextKey, cClock, isSyncing, qrIsSyncing,
                   syncStatus, queuedRecords, lastSync, soldier, cRemote, authChanges, qrResult, smVars, pVars>>

\* simulateAPISync returns { success: true }: markAsSynced(item.recordId).
CSyncSucceeds(p) ==
    /\ cPass[p].pc = "inflight"
    /\ LET recordId == cPass[p].batch[cPass[p].idx].recordId
       IN /\ cRemote' = [cRemote EXCEPT ![recordId] = @ + 1]
          /\ medicalRecords' = MarkedRecords(recordId)
          /\ syncStore' = UnqueuedStore(recordId)
    /\ cPass' = AdvancedCPass(p)
    /\ UNCHANGED <<cNextKey, cClock, isSyncing, qrIsSyncing, syncStatus, queuedRecords,
                   lastSync, soldier, cSubmits, authChanges, qrResult, smVars, pVars>>

\* simulateAPISync throws: the per-item catch counts the error.
CSyncFails(p) ==
    /\ cPass[p].pc = "inflight"
    /\ cPass' = AdvancedCPass(p)
    /\ UNCHANGED <<medicalRecords, syncStore, cNextKey, cClock, isSyncing, qrIsSyncing,
                   syncStatus, queuedRecords, lastSync, soldier, cRemote, cSubmits, authChanges, qrResult, smVars, pVars>>

\* The end of attemptSync: setLastSync, loadQueuedRecords, finally setIsSyncing(false).
CFinish(p) ==
    /\ cPass[p].pc = "finish"
    /\ LET h == cPass[p].hook
       IN /\ lastSync' = [lastSync EXCEPT ![h] = TRUE]
          /\ queuedRecords' = [queuedRecords EXCEPT ![h] =
                                  PrioritiesOf(getPendingSyncItems(defaultLimit))]
          /\ isSyncing' = Released(isSyncing, h)
    /\ cPass' = [cPass EXCEPT ![p] = IdleCPass]
    /\ UNCHANGED <<medicalRecords, syncStore, cNextKey, cClock, qrIsSyncing, syncStatus,
                   soldier, cRemote, cSubmits, authChanges, qrResult, smVars, pVars>>

NextClient ==
    \/ \E h \in Hooks, t \in Triage, ea \in BOOLEAN, ok \in BOOLEAN, dt \in {0, 1} :
          QueueRecord(h, t, ea, ok, dt)
    \/ \E h \in Hooks : QueueRecordSaveFails(h)
    \/ \E h \in Hooks : CForceSync(h)
    \/ \E h \in Hooks : PeriodicSync(h)
    \/ \E h \in Hooks : AutoSync(h)
    \/ HandleOnline
    \/ HandleOffline
    \/ \E s \in {"none", "s1"} : SetSoldier(s)
    \/ \E p \in CPassIds : CFetch(p)
    \/ \E p \in CPassIds : CSkip(p)
    \/ \E p \in CPassIds : CSubmit(p)
    \/ \E p \in CPassIds : CSyncSucceeds(p)
    \/ \E p \in CPassIds : CSyncFails(p)
    \/ \E p \in CPassIds : CFinish(p)

\* The client with a backlog. Soldier s0 queued MaxBacklog records while offline,
\* one after the other and of any priorities, and logged out; soldier s1 logged
\* in; the 'online' event came and its pass has ended (it found none of the
\* records under 'emergency-unknown' and reloaded the list).
BacklogInit ==
    /\ \E pr \in [1..MaxBacklog -> Priorities] :
          /\ medicalRecords = [i \in 1..MaxBacklog |->
                                 [id |-> i, owner |-> "s0", synced |-> FALSE,
                                  syncPriority |-> pr[i], updatedAt |-> 0]]
          /\ syncStore = [i \in 1..MaxBacklog |->
                            [id |-> i, recordId |-> i, priority |-> pr[i], ts |-> i]]
    /\ cNextKey = MaxBacklog + 1
    /\ cClock = MaxBacklog
    /\ isSyncing = [h \in Hooks |-> FALSE]
    /\ qrIsSyncing = [h \in Hooks |-> TRUE]
    /\ syncStatus = "online"
    /\ queuedRecords = [h \in Hooks |-> PrioritiesOf(getPendingSyncItems(defaultLimit))]
    /\ lastSync = [h \in Hooks |-> TRUE]
    /\ soldier = "s1"
    /\ cPass = [p \in CPassIds |-> IdleCPass]
    /\ cRemote = [r \in 1..MaxBacklog |-> 0]
    /\ cSubmits = 0
    /\ authChanges = MaxAuthChanges
    /\ qrResult = "success"

\* What goes on from there while the status stays 'online' and nobody logs in or
\* out or queues a record: the triggers of attemptSync and the steps of a pass,
\* which finds no record of s0 under the id of s1.
NextBacklog ==
    \/ \E h \in Hooks : CForceSync(h)
    \/ \E h \in Hooks : PeriodicSync(h)
    \/ \E h \in Hooks : AutoSync(h)
    \/ \E p \in CPassIds : CFetch(p)
    \/ \E p \in CPassIds : CSkip(p)
    \/ \E p \in CPassIds : CFinish(p)

\* ======================================================================
\* calculateSyncPriority on its own: the calls and what they returned
\* ======================================================================

\* Values of record.triageLevel: the four levels, a record without the field,
\* and a value that is none of the levels.
TriageInputs == Triage \cup {"immediate"}

\* Values of record.emergencyActions: the field is missing, or an array of a length.
EmergencyActionsInputs ==
    {[defined |-> FALSE, length |-> 0]} \cup
    {[defined |-> TRUE, length |-> n] : n \in 0..MaxActions}

\* record.emergencyActions && record.emergencyActions.length > 0
EmergencyActionsPresent(emergencyActions) ==
    emergencyActions.defined /\ emergencyActions.length > 0

PInit == priorityLog = <<>>

\* calculateSyncPriority(record) is called and returns.
Classify(triageLevel, emergencyActions) ==
    /\ Len(priorityLog) < MaxCalls
    /\ priorityLog' = Append(priorityLog,
           [triageLevel |-> triageLevel, emergencyActions |-> emergencyActions,
            priority |-> calculateSyncPriority(triageLevel,
                                               EmergencyActionsPresent(emergencyActions))])
    /\ UNCHANGED <<smVars, cVars>>

NextPriority ==
    \E triageLevel \in TriageInputs, emergencyActions \in EmergencyActionsInputs :
        Classify(triageLevel, emergencyActions)

Init == SMInit /\ CInit /\ PInit

Next == NextSM \/ NextClient \/ Restart \/ NextPriority

\* The two engines side by side.
Spec == Init /\ [][Next]_vars

\* The SyncManager alone.
SpecSM == Init /\ [][NextSM]_vars

\* The client alone.
SpecClient == Init /\ [][NextClient]_vars

\* The SyncManager in a process that can crash and restart.
SpecSMCrash == Init /\ [][NextSMCrash]_vars

\* The SyncManager with queueForSync calls and timer ticks only.
SpecSMTimer == Init /\ [][NextSMTimer]_vars

SpecSMClear == Init /\ [][NextSMClear]_vars

\* The client with a backlog, its passes scheduled fairly.
InitBacklog == SMInit /\ BacklogInit /\ PInit

SpecBacklog == InitBacklog /\ [][NextBacklog]_vars /\ WF_vars(NextBacklog)

\* The priority classifier alone.
SpecPriority == Init /\ [][NextPriority]_vars

\* ======================================================================
\* Properties
\* ======================================================================

\* The record id the current item of client pass p refers to.
CurrentRecordId(p) == cPass[p].batch[cPass[p].idx].recordId

\* Client pass p calls simulateAPISync in this step.
Submits(p) == cPass[p].pc = "lookup" /\ cPass'[p].pc = "inflight"

\* C1 (exactly-once delivery): once the remote has accepted a delivery of a
\* record, no later step submits that record to the remote again.
C1_NoSubmitAfterAccept ==
    [][\A p \in CPassIds : Submits(p) => cRemote[CurrentRecordId(p)] = 0]_vars

\* C2: a record whose synced flag is true has no entry in the sync_queue store.
C2_SyncedHasNoQueueEntry ==
    \A i \in 1..Len(medicalRecords) :
        medicalRecords[i].synced =>
            \A j \in 1..Len(syncStore) : syncStore[j].recordId # medicalRecords[i].id

\* C3 (at most one concurrent pass): at most one processSyncBatch invocation is
\* in progress.
C3_AtMostOnePass == Cardinality(smPass) <= 1

\* The sync items the SyncManager still has to resolve: those queued and those of
\* a claimed batch from the current item on.
LiveItems == SeqToSet(syncQueue) \cup UNION {Remaining(ps) : ps \in smPass}

\* C4 (at most one live queue entry per record): whatever enqueue calls were made,
\* a record has at most one live (not permanently failed) queue entry.
C4_OneLiveEntryPerRecord ==
    \A r \in Recs : Cardinality({it.id : it \in {x \in LiveItems : x.rec = r}}) <= 1

\* C5 (retry cap): no item is attempted a 4th time: an item at the remote has
\* failed fewer than maxRetries times before.
C5_RetryCap == \A ps \in smPass : Current(ps).attempts < maxRetries

\* C6 (dequeue ordering): every batch a pass took is ordered by priority, then
\* enqueue timestamp, as the entries were when the batch was taken.
C6_BatchOrdered == \A ps \in smPass : IsSorted(ps.batch, TRUE)

\* C7 (priority never relaxes): in every step, every sync item that is live before
\* and after the step has a priority not greater than before.
C7_PriorityNeverRelaxes ==
    [][\A a \in LiveItems : \A b \in LiveItems' :
          a.id = b.id => b.priority <= a.priority]_vars

\* C7 witness: an item failed, was requeued for retry and now has priority 1.
C7_RetriedItemEscalated ==
    \E i \in 1..Len(syncQueue) :
        /\ syncQueue[i].status = "retrying"
        /\ syncQueue[i].attempts >= 1
        /\ syncQueue[i].priority = 1

\* C8 (coalesced re-entrancy): a forceSync made while a pass is in progress starts
\* no second pass.
C8_ForceSyncCoalesced ==
    [][(smPass # {} /\ ForceSync) => smPass' = smPass]_vars

\* C9 (no duplicate in-flight delivery): no two submissions of the same record are
\* awaiting the remote at once.
C9_NoDuplicateInFlight ==
    \A p \in CPassIds : \A q \in CPassIds :
        (p # q /\ cPass[p].pc = "inflight" /\ cPass[q].pc = "inflight")
            => CurrentRecordId(p) # CurrentRecordId(q)

\* C10 (atomic creation): every stored record that is not synced has an entry in
\* the sync_queue store (saveMedicalRecord has returned in every state here).
C10_UnsyncedHasQueueEntry ==
    \A i \in 1..Len(medicalRecords) :
        ~medicalRecords[i].synced =>
            \E j \in 1..Len(syncStore) : syncStore[j].recordId = medicalRecords[i].id

\* C11 (partial-batch isolation): no step, a failed delivery included, takes an
\* item that waits behind the current one out of its batch: the pass still holds
\* it afterwards, waiting or at the remote.
C11_BatchItemsStillAttempted ==
    [][\A ps \in smPass : \A i \in (ps.idx + 1)..Len(ps.batch) :
          \E qs \in smPass' : qs.batch = ps.batch /\ qs.idx <= i]_vars

\* C11 witness: the delivery of an item failed (it is requeued for retry) and the
\* pass is at the item behind it.
C11_SiblingAfterFailure ==
    \E ps \in smPass :
        /\ ps.idx >= 2
        /\ \E i \in 1..Len(syncQueue) :
              /\ syncQueue[i].id = ps.batch[ps.idx - 1].id
              /\ syncQueue[i].status = "retrying"

\* C12 (crash safety): a restart loses no work: every sync item that was queued or
\* in a claimed batch is in the queue after the restart, with an attempt count not
\* larger than it had.
C12_RestartKeepsWork ==
    [][Restart => \A it \in LiveItems :
                     \E i \in 1..Len(syncQueue') :
                        /\ syncQueue'[i].id = it.id
                        /\ syncQueue'[i].attempts <= it.attempts]_vars

\* C13 (stop semantics): once stopSyncProcess was called with a batch in flight,
\* no trigger starts a new pass (one that is at the first item of a batch it has
\* just taken).
C13_NoPassAfterStop ==
    [][smStopped => \A ps \in smPass' : ps.idx = 1 => ps \in smPass]_vars

C15_AcceptedRecordLeavesQueueEmpty ==
    /\ calculateSyncPriority("IMMEDIATE", FALSE) = 1
    /\ (/\ Len(medicalRecords) = 1
        /\ medicalRecords[1].syncPriority = calculateSyncPriority("IMMEDIATE", FALSE)
        /\ cRemote[1] >= 1
        /\ FreeCPasses = CPassIds)
       => (medicalRecords[1].synced /\ syncStore = <<>>)

\* What the classifier has to return for a record.
ExpectedPriority(triageLevel, emergencyActions) ==
    IF triageLevel = "IMMEDIATE" THEN 1
    ELSE IF emergencyActions.defined /\ emergencyActions.length >= 1 THEN 1
    ELSE IF triageLevel = "DELAYED" THEN 2
    ELSE 3

\* C16 (priority classifier): every call of calculateSyncPriority returned a
\* priority in {1, 2, 3}: 1 for IMMEDIATE, 1 for a non-empty emergencyActions
\* whatever the triage level, else 2 for DELAYED, else 3; two calls with the same
\* record returned the same priority.
C16_ClassifierTable ==
    /\ \A i \in 1..Len(priorityLog) :
          /\ priorityLog[i].priority \in {1, 2, 3}
          /\ priorityLog[i].priority =
                ExpectedPriority(priorityLog[i].triageLevel, priorityLog[i].emergencyActions)
    /\ \A i \in 1..Len(priorityLog) : \A j \in 1..Len(priorityLog) :
          (/\ priorityLog[i].triageLevel = priorityLog[j].triageLevel
           /\ priorityLog[i].emergencyActions = priorityLog[j].emergencyActions)
              => priorityLog[i].priority = priorityLog[j].priority

\* C16 witness: the classifier was called for a record whose triage level is not
\* IMMEDIATE but that has emergency actions, and for a record with a triage value
\* that is none of the levels and no emergency actions.
C16_OverrideAndUnknownClassified ==
    /\ \E i \in 1..Len(priorityLog) :
          /\ priorityLog[i].triageLevel = "MINOR"
          /\ priorityLog[i].emergencyActions.length >= 1
          /\ priorityLog[i].priority = 1
    /\ \E i \in 1..Len(priorityLog) :
          /\ priorityLog[i].triageLevel = "immediate"
          /\ ~priorityLog[i].emergencyActions.defined
          /\ priorityLog[i].priority = 3

\* getSyncStats of hook h: total and highPriority, read from the queuedRecords state.
getSyncStats(h) ==
    [total |-> Len(queuedRecords[h]),
     highPriority |-> Cardinality({i \in 1..Len(queuedRecords[h]) : queuedRecords[h][i] = 1})]

\* C17 (sync status accuracy): with no pass in progress, getSyncStats reports as
\* total the number of entries in the sync_queue store and as highPriority the
\* number of those entries with priority 1.
C17_StatsMatchQueue ==
    FreeCPasses = CPassIds =>
        \A h \in Hooks :
            /\ getSyncStats(h).total = Len(syncStore)
            /\ getSyncStats(h).highPriority =
                  Cardinality({j \in 1..Len(syncStore) : syncStore[j].priority = 1})

\* C18 (error containment): every queueRecord call resolves to a result value
\* (success or failure), never to an exception; and a pass at an item, whether the
\* record is missing, the remote call throws or marking it synced fails, goes on
\* to the next item or to its end.
C18_ErrorsContained ==
    [][/\ qrResult' \in {"none", "success", "failure"}
       /\ \A p \in CPassIds :
             cPass[p].pc \in {"lookup", "inflight"} =>
                 cPass'[p].pc \in {"lookup", "inflight", "finish"}]_vars

\* C18 witness: a queueRecord call whose save threw has resolved to a failure
\* result, and a pass is at its end after the remote call for its last item (a
\* record that is stored and was submitted) threw.
C18_FailuresContained ==
    /\ qrResult = "failure"
    /\ \E p \in CPassIds :
          /\ cPass[p].pc = "finish"
          /\ RecordFound(cPass[p].owner, CurrentRecordId(p))
          /\ cRemote[CurrentRecordId(p)] = 0

\* C19 (retry escalation formula): an item that fails with fewer than maxRetries
\* attempts is requeued with priority max(1, priority - 1).
C19_RetryPriorityFormula ==
    [][\A ps \in smPass : \A error \in Errors :
          (SyncFails(ps, error) /\ Current(ps).attempts < maxRetries)
          => Last(syncQueue').priority =
                 IF Current(ps).priority - 1 > 1 THEN Current(ps).priority - 1 ELSE 1]_vars

\* C20 (permanent failure is immediate): an item whose save the remote rejects
\* as invalid is not queued again.
C20_RejectedNotRequeued ==
    [][\A ps \in smPass :
          SyncFails(ps, "validation") =>
              \A i \in 1..Len(syncQueue') : syncQueue'[i].id # Current(ps).id]_vars

\* C21 (orphaned queue entry): when a pass does not find the record of a queue
\* entry, the entry is resolved in that pass: it is no longer in the sync_queue
\* store, where a later pass would pick it up again.
C21_OrphanResolved ==
    [][\A p \in CPassIds :
          CSkip(p) => \A j \in 1..Len(syncStore') :
                          syncStore'[j].recordId # CurrentRecordId(p)]_vars

\* C22 (retry re-enters at the back of its tier): an item requeued for retry has
\* its enqueue timestamp set to the time of the requeue, which is not before the
\* time of the newest enqueue.
C22_RetryTimestampReset ==
    [][\A ps \in smPass : \A error \in Errors :
          (SyncFails(ps, error) /\ Current(ps).attempts < maxRetries)
          => Last(syncQueue').ts >= smClock]_vars

\* C23 (idempotent success): markAsSynced for a record that is already synced
\* changes nothing: no write to medical_records and no change of sync_queue.
C23_SecondMarkIsNoOp ==
    [][\A p \in CPassIds :
          (/\ CSyncSucceeds(p)
           /\ \E i \in 1..Len(medicalRecords) :
                 medicalRecords[i].id = CurrentRecordId(p) /\ medicalRecords[i].synced)
          => (medicalRecords' = medicalRecords /\ syncStore' = syncStore)]_vars

\* C24 (connectivity trigger): when the status goes from 'offline' to 'online'
\* with entries in the sync_queue store, a pass is in progress after the event;
\* and no record is submitted to the remote while the status is 'offline'.
C24_OnlineTriggersOfflineSilent ==
    [][/\ (syncStatus = "offline" /\ syncStatus' = "online" /\ syncStore # <<>>)
            => \E p \in CPassIds : cPass'[p].pc # "idle"
       /\ \A p \in CPassIds : Submits(p) => syncStatus = "online"]_vars

\* getLastSyncTime, as getSyncStatus reports it in lastSync: null for an empty
\* queue; otherwise the lastAttempt of the newest item of the queue with status
\* 'synced', undefined when the queue has none.
getLastSyncTime ==
    IF Len(syncQueue) = 0 THEN "null"
    ELSE IF \E i \in 1..Len(syncQueue) : syncQueue[i].status = "synced" THEN "date"
    ELSE "undefined"

\* C25 (last-sync bookkeeping): when a pass finds the queue empty, the sync
\* process is idle afterwards and the status query reports a last-sync time.
C25_LastSyncRecorded ==
    [][((TimerTick \/ ForceSync \/ ActivateEmergencySync) /\ syncQueue = <<>>)
          => (~smIsSyncing' /\ getLastSyncTime' = "date")]_vars

\* C26 (no stranded work): with queueForSync calls, timer ticks and passes only,
\* whenever the queue holds an item and no pass is in progress, the background
\* timer is active, so that a later tick takes the item.
C26_TimerArmedWhileWorkQueued ==
    (syncQueue # <<>> /\ smPass = {}) => (smIsSyncing /\ syncInterval)

\* C27 (no starvation on the client): with passes scheduled fairly while online,
\* every entry of the sync_queue store is eventually in the batch of a pass.
C27_EveryEntryBatched ==
    \A k \in 1..MaxBacklog :
        <>(\E p \in CPassIds : \E i \in 1..Len(cPass[p].batch) : cPass[p].batch[i].id = k)

\* C28 (client busy flag always released): isSyncing of a hook is never true
\* with no attemptSync pass of that hook in progress; every pass, whether it
\* found nothing pending or worked through its batch, sets it back to false.
C28_BusyFlagReleased ==
    \A h \in Hooks :
        isSyncing[h] => \E p \in CPassIds : cPass[p].pc # "idle" /\ cPass[p].hook = h

\* A pass has submitted a record and ended, and the flag is false again.
C28_PassEndedFlagCleared ==
    \E h \in Hooks :
        lastSync[h] /\ ~isSyncing[h] /\ FreeCPasses = CPassIds /\ cSubmits >= 1

\* C29 (SyncManager timer/flag consistency): isSyncing is true exactly when
\* syncInterval holds a timer handle, that timer is the only active one, and
\* with no handle held no timer is active.
C29_FlagIffOneTimer ==
    /\ smIsSyncing = syncInterval
    /\ smTimers = IF syncInterval THEN 1 ELSE 0

\* The process was stopped from outside with a batch in flight and a later
\* queueForSync call started it again: one timer is active.
C29_RestartedOneTimer ==
    smStopped /\ smIsSyncing /\ syncInterval /\ smTimers = 1 /\ smPass # {}

\* C30 (clearQueue effect and frame): clearQueue empties the queue and leaves
\* isSyncing and syncInterval as they were, and from then on the queue holds
\* only items that queueForSync calls after the clear put there.
C30_ClearQueueFinal ==
    [][/\ ClearQueue(TRUE) => (syncQueue' = <<>> /\ UNCHANGED <<smIsSyncing, syncInterval>>)
       /\ \A i \in 1..Len(syncQueue') : syncQueue'[i].id > smClearedUpTo']_vars

====
